---------------------------- MODULE Spec2Model ----------------------------
(***************************************************************************)
(* Model of the Alpicool BLE fridge session (custom_components/alpicool_ble *)
(* api.py): the frame builder, the notification handler that reassembles   *)
(* frames from byte chunks, the status decoder, and the polling loop with  *)
(* its callers.  Bytes are integers 0..255; sequences are 1-based, so the   *)
(* Python index i is the TLA+ index i + 1.                                  *)
(***************************************************************************)
EXTENDS Integers, Sequences, FiniteSets, TLC

VARIABLES
    status,                 \* self.status: a dict, here a function on its keys
    status_updated_event,   \* self._status_updated_event.is_set()
    bind_event,             \* self._bind_event.is_set()
    notification_buffer,    \* self._notification_buffer
    is_available,           \* self.is_available
    time_since_success,     \* loop.time() - self._last_successful_update_time
    write_requires_response,\* self._write_requires_response
    lock_locked,            \* self._lock.locked()
    connected,              \* self._client.is_connected
    notifying,              \* start_notify is in force on the current link
    gatt,                   \* what the device's write characteristic offers
    owed,                   \* commands the device has received and not answered
    pc,                     \* where each task is suspended
    polling,                \* start_polling has been entered
    sleep_duration,         \* argument of the poll loop's current sleep
    streak,                 \* what happened since the last successful query
    top_available,          \* is_available at the top of the running iteration
    seen_available,         \* is_available when update_callback() last ran
    discarded,              \* the poll loop's update_status cleared a set signal
    answered,               \* per task: QUERY frames received since its clear
    stream,                 \* bytes the transport has not delivered yet
    sent,                   \* bytes the transport has delivered so far
    notifications,          \* number of _notification_handler calls so far
    dispatched,             \* frames dispatched by the latest handler call
    log,                    \* frames dispatched since construction
    handler_error,          \* the latest handler call raised IndexError
    calls                   \* the command calls made so far, with their outcome

apiVars == <<status, status_updated_event, bind_event, notification_buffer,
             is_available, time_since_success, write_requires_response,
             lock_locked>>
linkVars == <<connected, notifying, gatt, owed>>
taskVars == <<pc, polling, sleep_duration, streak, top_available,
              seen_available, discarded, answered>>
feedVars == <<stream, sent, notifications, log>>
callVars == <<dispatched, handler_error>>
cmdVars == <<calls>>
vars == <<apiVars, linkVars, taskVars, feedVars, callVars, cmdVars>>

---------------------------------------------------------------------------
(* const.py: class Request *)
BIND == 0
QUERY == 1
SET == 2
RESET == 4
SET_LEFT == 5
SET_RIGHT == 6
Commands == {BIND, QUERY, SET, RESET, SET_LEFT, SET_RIGHT}

PRE == 254      \* 0xFE, one byte of the b"\xfe\xfe" header

---------------------------------------------------------------------------
(* Python helpers *)

EmptyDict == [k \in {} |-> 0]

\* dict.update(other)
DictUpdate(d, other) ==
    [k \in (DOMAIN d) \cup (DOMAIN other) |->
        IF k \in DOMAIN other THEN other[k] ELSE d[k]]

\* seq[a:] with a 0-based start
Slice(s, a) == SubSeq(s, a + 1, Len(s))

RECURSIVE SumSeq(_)
SumSeq(s) == IF s = <<>> THEN 0 ELSE s[1] + SumSeq(Tail(s))

\* bytearray.find(b"\xfe\xfe"): 0-based index of the first match, or -1
\* A search that reports a header at the start of the buffer whenever the
\* buffer holds one anywhere.
FindHeader_start(buf) ==
    LET hits == {i \in 1..(Len(buf) - 1) : buf[i] = PRE /\ buf[i + 1] = PRE}
    IN  IF hits = {} THEN -1 ELSE 0

FindHeader(buf) ==
    LET hits == {i \in 1..(Len(buf) - 1) : buf[i] = PRE /\ buf[i + 1] = PRE}
    IN  IF hits = {} THEN -1
        ELSE (CHOOSE i \in hits : \A j \in hits : i <= j) - 1

---------------------------------------------------------------------------
(* api.py *)

\* A conversion that leaves the byte unsigned.
_to_signed_byte_raw(b) == b

_to_signed_byte(b) == IF b > 127 THEN b - 256 ELSE b

\* A checksum that keeps one byte of the sum.
_checksum_8(bytes) == SumSeq(bytes) % 256

_checksum(bytes) == SumSeq(bytes) % 65536

\* int.to_bytes(2, "big")
ToBytes2(n) == <<n \div 256, n % 256>>

\* A builder whose length byte counts one byte too many.
_build_packet_long(cmd, payload) ==
    IF cmd = BIND THEN <<PRE, PRE, 3, 0, 1, 255>>
    ELSE IF cmd = QUERY THEN <<PRE, PRE, 3, 1, 2, 0>>
    ELSE LET body   == <<cmd>> \o payload
             length == Len(body) + 3
             packet == <<PRE, PRE, length>> \o body
         IN  packet \o ToBytes2(_checksum(packet))

_build_packet(cmd, payload) ==
    IF cmd = BIND THEN <<PRE, PRE, 3, 0, 1, 255>>
    ELSE IF cmd = QUERY THEN <<PRE, PRE, 3, 1, 2, 0>>
    ELSE LET body   == <<cmd>> \o payload
             length == Len(body) + 2
             packet == <<PRE, PRE, length>> \o body
         IN  packet \o ToBytes2(_checksum(packet))

\* dict.get(key, default)
DictGet(d, k, default) == IF k \in DOMAIN d THEN d[k] ELSE default

\* int(dict.get(key, default)) for the keys that hold a bool
IntOfBool(d, k, default) ==
    IF k \in DOMAIN d THEN (IF d[k] THEN 1 ELSE 0) ELSE default

\* to_unsigned_byte (lines 50-51): x & 0xFF
to_unsigned_byte(x) == x % 256

\* A payload that never carries the right-zone block.
SetOtherData_single(cur) ==
    <<IntOfBool(cur, "locked", 0),
      IntOfBool(cur, "powered_on", 1),
      DictGet(cur, "run_mode", 0),
      DictGet(cur, "bat_saver", 0),
      to_unsigned_byte(DictGet(cur, "left_target", 0)),
      to_unsigned_byte(DictGet(cur, "temp_max", 20)),
      to_unsigned_byte(DictGet(cur, "temp_min", -20)),
      to_unsigned_byte(DictGet(cur, "left_ret_diff", 1)),
      DictGet(cur, "start_delay", 0),
      DictGet(cur, "unit", 0),
      to_unsigned_byte(DictGet(cur, "left_tc_hot", 0)),
      to_unsigned_byte(DictGet(cur, "left_tc_mid", 0)),
      to_unsigned_byte(DictGet(cur, "left_tc_cold", 0)),
      to_unsigned_byte(DictGet(cur, "left_tc_halt", 0))>>

\* The bytes of the payload, from the merged dict (lines 53-90).
SetOtherData(cur) ==
    <<IntOfBool(cur, "locked", 0),
      IntOfBool(cur, "powered_on", 1),
      DictGet(cur, "run_mode", 0),
      DictGet(cur, "bat_saver", 0),
      to_unsigned_byte(DictGet(cur, "left_target", 0)),
      to_unsigned_byte(DictGet(cur, "temp_max", 20)),
      to_unsigned_byte(DictGet(cur, "temp_min", -20)),
      to_unsigned_byte(DictGet(cur, "left_ret_diff", 1)),
      DictGet(cur, "start_delay", 0),
      DictGet(cur, "unit", 0),
      to_unsigned_byte(DictGet(cur, "left_tc_hot", 0)),
      to_unsigned_byte(DictGet(cur, "left_tc_mid", 0)),
      to_unsigned_byte(DictGet(cur, "left_tc_cold", 0)),
      to_unsigned_byte(DictGet(cur, "left_tc_halt", 0))>>
    \o (IF "right_current" \in DOMAIN cur
        THEN <<to_unsigned_byte(DictGet(cur, "right_target", 0)), 0, 0,
               to_unsigned_byte(DictGet(cur, "right_ret_diff", 1)),
               to_unsigned_byte(DictGet(cur, "right_tc_hot", 0)),
               to_unsigned_byte(DictGet(cur, "right_tc_mid", 0)),
               to_unsigned_byte(DictGet(cur, "right_tc_cold", 0)),
               to_unsigned_byte(DictGet(cur, "right_tc_halt", 0)), 0, 0, 0>>
        ELSE <<>>)

\* bytearray(list) raises ValueError when an element is outside range(256)
\* (lines 53-70, 74-88): the elements that went through to_unsigned_byte are
\* inside it, the int(...) ones are what the dict holds.
ValueErrorRaised(cur) == \E n \in DOMAIN SetOtherData(cur) :
                             SetOtherData(cur)[n] \notin 0..255

\* A builder that merges the new values into self.status itself.
_build_set_other_payload_inplace(st, new_values) ==
    LET current_status == DictUpdate(st, new_values)
    IN  [data |-> IF ValueErrorRaised(current_status) THEN <<>>
                  ELSE SetOtherData(current_status),
         raises |-> ValueErrorRaised(current_status),
         status |-> current_status]

\* _build_set_other_payload: the payload it returns and self.status as the
\* call leaves it (the merge is done on a copy, line 47).
_build_set_other_payload(st, new_values) ==
    LET current_status == DictUpdate(st, new_values)
    IN  [data |-> IF ValueErrorRaised(current_status) THEN <<>>
                  ELSE SetOtherData(current_status),
         raises |-> ValueErrorRaised(current_status),
         status |-> st]

base_status(p) ==
    ("locked" :> (p[1] # 0)) @@ ("powered_on" :> (p[2] # 0)) @@
    ("run_mode" :> p[3]) @@ ("bat_saver" :> p[4]) @@
    ("left_target" :> _to_signed_byte(p[5])) @@
    ("temp_max" :> _to_signed_byte(p[6])) @@
    ("temp_min" :> _to_signed_byte(p[7])) @@
    ("left_ret_diff" :> _to_signed_byte(p[8])) @@
    ("start_delay" :> p[9]) @@ ("unit" :> p[10]) @@
    ("left_tc_hot" :> _to_signed_byte(p[11])) @@
    ("left_tc_mid" :> _to_signed_byte(p[12])) @@
    ("left_tc_cold" :> _to_signed_byte(p[13])) @@
    ("left_tc_halt" :> _to_signed_byte(p[14])) @@
    ("left_current" :> _to_signed_byte(p[15])) @@
    ("bat_percent" :> p[16]) @@ ("bat_vol_int" :> p[17]) @@
    ("bat_vol_dec" :> p[18])

dual_zone_status(p) ==
    ("right_target" :> _to_signed_byte(p[19])) @@
    ("unknown_19" :> p[20]) @@ ("unknown_20" :> p[21]) @@
    ("right_ret_diff" :> _to_signed_byte(p[22])) @@
    ("right_tc_hot" :> _to_signed_byte(p[23])) @@
    ("right_tc_mid" :> _to_signed_byte(p[24])) @@
    ("right_tc_cold" :> _to_signed_byte(p[25])) @@
    ("right_tc_halt" :> _to_signed_byte(p[26])) @@
    ("right_current" :> _to_signed_byte(p[27])) @@
    ("running_status" :> p[28])

extra_unknown_status(p) ==
    ("unknown_28" :> p[29]) @@ ("unknown_29" :> p[30]) @@
    ("unknown_30" :> p[31])

\* The first index of base_status that is out of range raises IndexError
\* before self.status is touched; the except clause only logs.
DecodeRaises(p) == Len(p) < 18

\* A decoder that never stores the right-zone fields.
_decode_status_single(st, p) ==
    IF Len(p) < 18 THEN st ELSE DictUpdate(st, base_status(p))

\* A decoder that stores what a short payload does hold.
_decode_status_partial(st, p) ==
    IF Len(p) = 0 THEN st
    ELSE IF Len(p) < 18 THEN DictUpdate(st, "locked" :> (p[1] # 0))
    ELSE LET s1 == DictUpdate(st, base_status(p))
             s2 == IF Len(p) >= 28 THEN DictUpdate(s1, dual_zone_status(p))
                   ELSE s1
         IN  IF Len(p) >= 31 THEN DictUpdate(s2, extra_unknown_status(p))
             ELSE s2

\* Lines 135-187
_decode_status(st, p) ==
    IF DecodeRaises(p) THEN st
    ELSE LET s1 == DictUpdate(st, base_status(p))
             s2 == IF Len(p) >= 28 THEN DictUpdate(s1, dual_zone_status(p))
                   ELSE s1
         IN  IF Len(p) >= 31 THEN DictUpdate(s2, extra_unknown_status(p))
             ELSE s2

\* The state one _notification_handler call works on.  received is the
\* number of bytes the session has been handed so far, this call's included:
\* buf always holds the last Len(buf) of them.
HandlerState(buf, st, upd, bnd, received) ==
    [buf |-> buf, status |-> st, updated |-> upd, bind |-> bnd,
     received |-> received, out |-> <<>>, error |-> FALSE]

\* Line 215
ExpectedTotalLen(buf) == 3 + buf[3]

\* A payload slice that starts one byte late.
PayloadOf_late(packet) == Slice(packet, 5)

\* Line 231: payload = current_packet[4:]
PayloadOf(packet) == Slice(packet, 4)

\* What is recorded of one dispatched packet: its bytes, where in the byte
\* stream it started, its command and payload, and whether _decode_status
\* ran on it and caught IndexError.
Frame(packet, at) ==
    [packet |-> packet, at |-> at, cmd |-> packet[4],
     payload |-> PayloadOf(packet),
     decode_error |-> packet[4] = QUERY /\ DecodeRaises(PayloadOf(packet))]

\* A dispatch that takes the echo of a SET command for a status update.
Dispatch_echo(h, packet, rest) ==
    IF Len(packet) < 4
    THEN [h EXCEPT !.buf = rest, !.error = TRUE]
    ELSE LET f  == Frame(packet, h.received - Len(packet) - Len(rest))
             h1 == [h EXCEPT !.buf = rest, !.out = Append(@, f)]
         IN  IF f.cmd = QUERY
             THEN [h1 EXCEPT !.status = _decode_status(@, f.payload),
                             !.updated = TRUE]
             ELSE IF f.cmd = BIND THEN [h1 EXCEPT !.bind = TRUE]
             ELSE IF f.cmd \in {SET, SET_LEFT, SET_RIGHT}
             THEN [h1 EXCEPT !.updated = TRUE]
             ELSE h1

\* Lines 228-241: the dispatch of one complete packet.
Dispatch(h, packet, rest) ==
    IF Len(packet) < 4
    THEN \* current_packet[3] raises IndexError; the buffer is already cut
         [h EXCEPT !.buf = rest, !.error = TRUE]
    ELSE LET f  == Frame(packet, h.received - Len(packet) - Len(rest))
             h1 == [h EXCEPT !.buf = rest, !.out = Append(@, f)]
         IN  IF f.cmd = QUERY
             THEN [h1 EXCEPT !.status = _decode_status(@, f.payload),
                             !.updated = TRUE]
             ELSE IF f.cmd = BIND THEN [h1 EXCEPT !.bind = TRUE]
             ELSE h1

\* A handler that stops after the first packet of a call.
ExtractLoop_once(h) ==
    IF h.buf = <<>> THEN h
    ELSE LET start_index == FindHeader(h.buf) IN
         IF start_index = -1 THEN [h EXCEPT !.buf = <<>>]
         ELSE LET buf == Slice(h.buf, start_index) IN
              IF Len(buf) < 3 THEN [h EXCEPT !.buf = buf]
              ELSE IF Len(buf) < ExpectedTotalLen(buf) THEN [h EXCEPT !.buf = buf]
              ELSE Dispatch(h, SubSeq(buf, 1, ExpectedTotalLen(buf)),
                            Slice(buf, ExpectedTotalLen(buf)))

\* Lines 193-241: the while loop over the buffer.
RECURSIVE ExtractLoop(_)
ExtractLoop(h) ==
    IF h.buf = <<>> THEN h
    ELSE LET start_index == FindHeader(h.buf) IN
         IF start_index = -1 THEN [h EXCEPT !.buf = <<>>]
         ELSE LET buf == Slice(h.buf, start_index) IN
              IF Len(buf) < 3 THEN [h EXCEPT !.buf = buf]
              ELSE IF Len(buf) < ExpectedTotalLen(buf) THEN [h EXCEPT !.buf = buf]
              ELSE LET d == Dispatch(h,
                                SubSeq(buf, 1, ExpectedTotalLen(buf)),
                                Slice(buf, ExpectedTotalLen(buf)))
                   IN  IF d.error THEN d ELSE ExtractLoop(d)

\* Line 191, then the loop.
_notification_handler(buf, st, upd, bnd, received, data) ==
    ExtractLoop(HandlerState(buf \o data, st, upd, bnd, received + Len(data)))

---------------------------------------------------------------------------
(* What the transport can deliver: the byte streams of the feed scenarios. *)

MaxData == 2        \* longest payload handed to _build_packet
MaxJunk == 2        \* longest run of junk bytes before a frame
MaxCalls == 2       \* the handler-call counter stops counting here

DataBytes == {0, 3, PRE}
JunkBytes == {0, PRE}

SeqsUpTo(S, n) == UNION {[1..k -> S] : k \in 0..n}

\* Junk that holds no complete header; it may end in a single 0xFE.
Junk == {j \in SeqsUpTo(JunkBytes, MaxJunk) : FindHeader(j) = -1}

EncodedFrames ==
    {_build_packet(c, d) : c \in Commands, d \in SeqsUpTo(DataBytes, MaxData)}

\* A frame as the device sends it: header, length byte counting the command
\* byte and everything after it, command byte, body.
ResponseFrame(cmd, body) == <<PRE, PRE, Len(body) + 1, cmd>> \o body

SampleA ==
    <<0, 1, 0, 0, 5, 20, 236, 1, 0, 0, 10, 5, 0, 20, 8, 75, 12, 5,
      250, 0, 0, 2, 9, 4, 255, 18, 3, 1, 7, 8, 9>>
SampleB ==
    <<1, 0, 1, 2, 251, 10, 246, 2, 3, 1, 0, 0, 0, 0, 254, 254, 11, 9,
      4, 1, 1, 1, 128, 127, 0, 0, 252, 0, 1, 2, 3>>
StatusLens == {17, 18, 20, 27, 28, 31}
StatusPayloads ==
    {SubSeq(s, 1, n) : s \in {SampleA, SampleB}, n \in StatusLens}
QueryResponses == {ResponseFrame(QUERY, p) : p \in StatusPayloads}
\* The responses that also arrive back to back: one of FirstResponses
\* followed by one of SecondResponses.
PairLens == {17, 18, 28}
FirstResponses ==
    {ResponseFrame(QUERY, SubSeq(SampleA, 1, n)) : n \in PairLens}
SecondResponses ==
    {ResponseFrame(QUERY, SubSeq(SampleB, 1, n)) : n \in PairLens}

\* A decoded status followed by the echo of a command.
EchoStreams ==
    {ResponseFrame(QUERY, SubSeq(SampleA, 1, 18)) \o _build_packet(c, <<5>>) :
        c \in {SET, SET_LEFT, SET_RIGHT, RESET}}

\* Frames whose length byte is 0, 1 or 2, alone or followed by more bytes.
TinyFrames ==
    {<<PRE, PRE, n>> \o SubSeq(<<QUERY, 7>>, 1, n) \o t :
        n \in 0..2, t \in {<<>>, <<5>>, _build_packet(BIND, <<>>)}}

FeedStreams ==
    {j \o f : j \in Junk, f \in EncodedFrames}
    \cup QueryResponses
    \cup {f1 \o f2 : f1 \in FirstResponses, f2 \in SecondResponses}
    \cup EchoStreams
    \cup TinyFrames

---------------------------------------------------------------------------
(* Feed specification: a freshly constructed session (lines 22-35) whose   *)
(* transport delivers one of the streams in chunks of any size.            *)

\* FridgeApi.__init__
SessionInit ==
    /\ status = EmptyDict
    /\ status_updated_event = FALSE
    /\ bind_event = FALSE
    /\ notification_buffer = <<>>
    /\ is_available = TRUE
    /\ time_since_success = 0
    /\ write_requires_response = FALSE
    /\ lock_locked = FALSE

\* No task runs: the session only receives notifications.
NoTasks ==
    /\ pc = [t \in {"main", "caller"} |-> "idle"]
    /\ polling = FALSE
    /\ sleep_duration = 0
    /\ streak = "none"
    /\ top_available = TRUE
    /\ seen_available = TRUE
    /\ discarded = FALSE
    /\ answered = [t \in {"main", "caller"} |-> "no"]

InitFeed ==
    /\ SessionInit
    /\ NoTasks
    /\ connected = TRUE
    /\ notifying = TRUE
    /\ gatt = "write-without-response"
    /\ owed = {}
    /\ stream \in FeedStreams
    /\ sent = <<>>
    /\ notifications = 0
    /\ log = <<>>
    /\ dispatched = <<>>
    /\ handler_error = FALSE
    /\ calls = <<>>

\* The transport delivers the next n bytes of the stream as one notification:
\* one _notification_handler(sender, data) call.
Notification(n) ==
    LET data == SubSeq(stream, 1, n)
        h    == _notification_handler(notification_buffer, status,
                                      status_updated_event, bind_event,
                                      Len(sent), data)
    IN  /\ notification_buffer' = h.buf
        /\ status' = h.status
        /\ status_updated_event' = h.updated
        /\ bind_event' = h.bind
        /\ dispatched' = h.out
        /\ handler_error' = h.error
        /\ log' = log \o h.out
        /\ sent' = sent \o data
        /\ stream' = Slice(stream, n)
        /\ notifications' = IF notifications < MaxCalls THEN notifications + 1
                            ELSE notifications
        /\ UNCHANGED <<is_available, time_since_success,
                       write_requires_response, lock_locked, linkVars,
                       taskVars, cmdVars>>

NextFeed == \E n \in 1..Len(stream) : Notification(n)

SpecFeed == InitFeed /\ [][NextFeed]_vars

---------------------------------------------------------------------------
(* The session with its tasks.  "main" runs async_setup_entry              *)
(* (__init__.py) and then start_polling; "caller" is an entity that issues *)
(* commands.  asyncio runs one task at a time and switches only at an      *)
(* await, so each action is the code between two awaits: it starts when    *)
(* the awaited operation completes and ends at the next await.  pc names   *)
(* the await a task is suspended at.                                       *)
(*                                                                         *)
(* Time.  loop.time() has an arbitrary origin and the code reads it only   *)
(* to store it in _last_successful_update_time and to subtract that from   *)
(* it (lines 377-380), so the model keeps the difference,                  *)
(* time_since_success: storing the time sets it to 0, and it grows while   *)
(* the poll task is suspended in a timed wait (wait_for, sleep, the        *)
(* client's connect timeout).  The difference is only compared with 300,   *)
(* so it stops growing at MaxTime, beyond 300.  Before start_polling the   *)
(* difference is not read and is left at 0.                                *)

MaxTime == 305      \* time_since_success stops growing here

QUERY_TIMEOUT == 5          \* update_status: wait_for(..., timeout=5)
BIND_TIMEOUT == 20          \* connect: wait_for(..., timeout=20)
CONNECT_TIMEOUT == 30       \* BleakClient(self._address, timeout=30.0)
SLEEP_CONNECTED == 30       \* sleep_duration while connected
SLEEP_DISCONNECTED == 60    \* sleep_duration while disconnected
ERROR_SLEEP == 60           \* sleep after a BleakError in the loop
STALE_AFTER == 300          \* time_since_success > 300

Tasks == {"main", "caller"}

\* The awaits of start_polling inside its try block, and the one outside.
TryAwaits ==
    {"connect", "start_notify", "disconnect", "query_write", "query_wait",
     "sleep"}
PollAwaits == TryAwaits \cup {"error_sleep"}

\* What the device's write characteristic advertises (lines 252-281).
GattKinds == {"write-without-response", "write", "no-write", "absent"}

\* Frames the device sends in answer to a command it received.
StatusSingle == SubSeq(SampleA, 1, 18)
StatusShort == SubSeq(SampleA, 1, 17)
Answers(c) ==
    IF c = QUERY
    THEN {ResponseFrame(QUERY, p) : p \in {StatusSingle, StatusShort}}
    ELSE {<<PRE, PRE, 3, 0, 1, 255>>}

\* The awaits of one iteration of start_polling before its sleep.
IterationAwaits ==
    {"connect", "start_notify", "disconnect", "query_write", "query_wait"}

\* The state as one record, so that the code between two awaits composes.
St ==
    [status |-> status, updated |-> status_updated_event, bind |-> bind_event,
     buf |-> notification_buffer, avail |-> is_available,
     since |-> time_since_success, wrr |-> write_requires_response,
     connected |-> connected, notifying |-> notifying, owed |-> owed,
     pc |-> pc, polling |-> polling, sleep |-> sleep_duration,
     streak |-> streak, top |-> top_available, seen |-> seen_available,
     discarded |-> discarded, answered |-> answered]

Set(s) ==
    /\ status' = s.status
    /\ status_updated_event' = s.updated
    /\ bind_event' = s.bind
    /\ notification_buffer' = s.buf
    /\ is_available' = s.avail
    /\ time_since_success' = s.since
    /\ write_requires_response' = s.wrr
    /\ connected' = s.connected
    /\ notifying' = s.notifying
    /\ owed' = s.owed
    /\ pc' = s.pc
    /\ polling' = s.polling
    /\ sleep_duration' = s.sleep
    /\ streak' = s.streak
    /\ top_available' = IF s.pc["main"] \in IterationAwaits THEN s.top
                        ELSE s.avail
    /\ seen_available' = s.seen
    /\ discarded' = (s.pc["main"] \in {"query_write", "query_wait"}
                      /\ s.discarded)
    /\ answered' = [t \in Tasks |->
                       IF s.pc[t] \in {"query_write", "query_wait"}
                       THEN s.answered[t] ELSE "no"]
    /\ UNCHANGED <<lock_locked, gatt, feedVars, callVars, cmdVars>>

\* The link is gone: by the device, or by self._client.disconnect().
Unlinked(s) ==
    [s EXCEPT !.connected = FALSE, !.notifying = FALSE, !.owed = {},
              !.streak = "none"]

\* A staleness check that marks the device unavailable and keeps the status.
StalenessCheck_keep(s) ==
    IF s.since > STALE_AFTER /\ s.avail
    THEN [s EXCEPT !.avail = FALSE,
                   !.streak = IF @ = "clean" THEN "stale" ELSE @]
    ELSE s

\* start_polling, lines 377-387: the staleness check.
StalenessCheck(s) ==
    IF s.since > STALE_AFTER /\ s.avail
    THEN [s EXCEPT !.avail = FALSE, !.status = EmptyDict,
                   !.streak = IF @ = "clean" THEN "stale" ELSE @]
    ELSE s

\* start_polling, lines 377-392: check, update_callback(), sleep.
EndOfIteration(s) ==
    [StalenessCheck(s) EXCEPT
        !.seen = StalenessCheck(s).avail,
        !.sleep = IF s.connected THEN SLEEP_CONNECTED ELSE SLEEP_DISCONNECTED,
        !.pc["main"] = "sleep"]

\* An update_status that does not clear the event before it sends.
SendQuery_noclear(s, t) ==
    [s EXCEPT !.discarded = IF t = "main" THEN FALSE ELSE @,
              !.answered[t] = "no", !.pc[t] = "query_write"]

\* update_status, lines 342-343 (the client is connected): clear the event
\* and start the write of the QUERY packet.
SendQuery(s, t) ==
    [s EXCEPT !.updated = FALSE,
              !.discarded = IF t = "main" THEN s.updated ELSE @,
              !.answered[t] = "no", !.pc[t] = "query_write"]

\* A loop whose successful query refreshes the timestamp only.
AfterPollUpdate_stamp(s, r) ==
    EndOfIteration(IF r THEN [s EXCEPT !.since = 0, !.streak = "clean"]
                   ELSE s)

\* start_polling, lines 370-392: update_status returned r.
AfterPollUpdate(s, r) ==
    EndOfIteration(IF r THEN [s EXCEPT !.since = 0, !.avail = TRUE,
                                       !.streak = "clean"]
                   ELSE s)

\* start_polling, lines 369-392: after the reconnect attempt, if any.
PollBody(s) == IF s.connected THEN SendQuery(s, "main") ELSE EndOfIteration(s)

\* A discovery that gives up without disconnecting the client.
Discover_stay(s) ==
    IF gatt \in {"absent", "no-write"}
    THEN [s EXCEPT !.pc["main"] = IF s.polling THEN "sleep" ELSE "setup_failed"]
    ELSE [s EXCEPT !.wrr = (gatt = "write"), !.pc["main"] = "start_notify"]

\* connect, lines 250-285, once the client is connected: find the write
\* characteristic, choose the write mode, start start_notify.
Discover(s) ==
    IF gatt \in {"absent", "no-write"}
    THEN [s EXCEPT !.pc["main"] = "disconnect"]
    ELSE [s EXCEPT !.wrr = (gatt = "write"), !.pc["main"] = "start_notify"]

\* start_polling, lines 357-361: the top of an iteration.
PollTop(s) ==
    IF ~s.connected THEN [s EXCEPT !.top = s.avail, !.pc["main"] = "connect"]
    ELSE PollBody([s EXCEPT !.top = s.avail])

\* async_setup_entry, lines 40-58 of __init__.py: update_status returned r;
\* on success set_initial_timestamp and the start of start_polling (lines
\* 355-356 of api.py).
AfterSetupUpdate(s, r) ==
    IF ~r THEN [s EXCEPT !.pc["main"] = "setup_failed"]
    ELSE PollTop([s EXCEPT !.since = 0, !.polling = TRUE,
                           !.streak = "clean"])

\* update_status returned r to task t.
UpdateReturn(s, t, r) ==
    IF t = "caller" THEN [s EXCEPT !.pc[t] = "idle"]
    ELSE IF s.polling THEN AfterPollUpdate(s, r)
    ELSE AfterSetupUpdate(s, r)

\* connect returned r: to start_polling (lines 361-369, is_reconnect=True)
\* or to async_setup_entry (lines 36-40 of __init__.py).
ConnectReturn(s, r) ==
    IF s.polling
    THEN PollBody(IF r THEN [s EXCEPT !.avail = TRUE, !.since = 0] ELSE s)
    ELSE IF ~r THEN [s EXCEPT !.pc["main"] = "setup_failed"]
    ELSE IF ~s.connected THEN AfterSetupUpdate(s, FALSE)
    ELSE SendQuery(s, "main")

\* A connect that reports success only when the BIND echo has arrived.
ConnectTail_bound(s) == ConnectReturn(s, s.connected /\ s.bind)

\* connect, lines 311-315.
ConnectTail(s) == ConnectReturn(s, s.connected)

\* A connect that binds on every call.
AfterNotify_always(s) ==
    [s EXCEPT !.bind = FALSE,
              !.pc["main"] = IF s.connected THEN "bind_write" ELSE "bind_wait"]

\* connect, lines 291-309: notifications are on; bind unless reconnecting.
AfterNotify(s) ==
    IF s.polling THEN ConnectTail(s)
    ELSE [s EXCEPT !.bind = FALSE,
                   !.pc["main"] = IF s.connected THEN "bind_write"
                                  ELSE "bind_wait"]

\* An exception other than CancelledError and BleakError leaves the task.
Escapes(s) ==
    [s EXCEPT !.pc["main"] = IF s.polling THEN "crashed" ELSE "setup_failed"]

\* A BleakError reaches start_polling (lines 398-401) or async_setup_entry
\* (lines 44-48 of __init__.py, which disconnects and gives up).
BleakErrorRaised(s) ==
    IF s.polling
    THEN [s EXCEPT !.avail = FALSE, !.streak = "none",
                   !.pc["main"] = "error_sleep"]
    ELSE [Unlinked(s) EXCEPT !.pc["main"] = "setup_failed"]

\* A cancellation handler that leaves is_available as it is.
Cancelled_keep(s) ==
    [s EXCEPT !.streak = "none",
              !.pc["main"] = IF s.pc["main"] \in TryAwaits THEN "cancelled"
                             ELSE "cancelled_in_handler"]

\* start_polling, lines 394-397, and a cancellation at line 401, which is
\* outside the try block: the CancelledError leaves the task as it is.
Cancelled(s) ==
    IF s.pc["main"] \in TryAwaits
    THEN [s EXCEPT !.avail = FALSE, !.streak = "none",
                   !.pc["main"] = "cancelled"]
    ELSE [s EXCEPT !.streak = "none", !.pc["main"] = "cancelled_in_handler"]

\* The poll task was suspended for d seconds.
Later(s, d) ==
    IF s.polling
    THEN [s EXCEPT !.since = IF @ + d > MaxTime THEN MaxTime ELSE @ + d]
    ELSE s

---------------------------------------------------------------------------
(* The awaits of "main" completing.                                         *)

\* self._client.connect() returns (line 248).
ClientConnectOk ==
    /\ pc["main"] = "connect"
    /\ Set(Discover([St EXCEPT !.connected = TRUE]))

\* self._client.connect() raises BleakError: lines 287-290, where
\* disconnect() finds the client not connected.
ClientConnectFails ==
    /\ pc["main"] = "connect"
    /\ Set(ConnectReturn(St, FALSE))

\* self._client.connect() gives up after its timeout with TimeoutError,
\* which connect() does not catch.
ClientConnectTimesOut ==
    /\ pc["main"] = "connect"
    /\ Set(Escapes(Later(St, CONNECT_TIMEOUT)))

\* start_notify returns (line 283).
StartNotifyOk ==
    /\ pc["main"] = "start_notify"
    /\ connected
    /\ Set(AfterNotify([St EXCEPT !.notifying = TRUE]))

\* start_notify raises BleakError: lines 287-290.
StartNotifyFails ==
    /\ pc["main"] = "start_notify"
    /\ Set(IF connected THEN [St EXCEPT !.pc["main"] = "disconnect"]
           ELSE ConnectReturn(St, FALSE))

\* self._client.disconnect() returns (line 322), then connect returns False.
ClientDisconnected ==
    /\ pc["main"] = "disconnect"
    /\ Set(ConnectReturn(Unlinked(St), FALSE))

\* The write of the BIND packet returns (line 296).
BindWriteOk ==
    /\ pc["main"] = "bind_write"
    /\ connected
    /\ Set([St EXCEPT !.owed = @ \cup {BIND}, !.pc["main"] = "bind_wait"])

\* The write of the BIND packet raises BleakError: lines 304-307.
BindWriteFails ==
    /\ pc["main"] = "bind_write"
    /\ Set(ConnectTail(St))

\* wait_for(self._bind_event.wait()) returns (line 298).
BindEchoed ==
    /\ pc["main"] = "bind_wait"
    /\ bind_event
    /\ Set(ConnectTail(St))

\* wait_for(self._bind_event.wait()) times out: lines 300-303.
BindTimesOut ==
    /\ pc["main"] = "bind_wait"
    /\ ~bind_event
    /\ Set(ConnectTail(Later(St, BIND_TIMEOUT)))

\* The write of the QUERY packet returns (line 343).
QueryWriteOk(t) ==
    /\ pc[t] = "query_write"
    /\ connected
    /\ Set([St EXCEPT !.owed = @ \cup {QUERY}, !.pc[t] = "query_wait"])

\* The write of the QUERY packet raises BleakError, which update_status
\* does not catch.
QueryWriteFails(t) ==
    /\ pc[t] = "query_write"
    /\ Set(IF t = "caller" THEN [St EXCEPT !.pc[t] = "idle"]
           ELSE BleakErrorRaised(St))

\* wait_for(self._status_updated_event.wait()) returns (lines 345, 350).
QueryAnswered(t) ==
    /\ pc[t] = "query_wait"
    /\ status_updated_event
    /\ Set(UpdateReturn(St, t, TRUE))

\* wait_for(self._status_updated_event.wait()) times out (lines 346-348).
QueryTimesOut(t) ==
    /\ pc[t] = "query_wait"
    /\ ~status_updated_event
    /\ Set(UpdateReturn(IF t = "main" THEN Later(St, QUERY_TIMEOUT) ELSE St,
                        t, FALSE))

\* asyncio.sleep(sleep_duration) returns (line 392): the next iteration.
Wakes ==
    /\ pc["main"] = "sleep"
    /\ Set(PollTop(Later(St, sleep_duration)))

\* asyncio.sleep(60) returns (line 401): the next iteration.
WakesAfterError ==
    /\ pc["main"] = "error_sleep"
    /\ Set(PollTop(Later(St, ERROR_SLEEP)))

\* The poll task is cancelled while suspended (the config entry's
\* background task, on unload): CancelledError is raised at its await.
PollCancelled ==
    /\ polling /\ pc["main"] \in PollAwaits
    /\ Set(Cancelled(St))

---------------------------------------------------------------------------
(* The entity's calls, once the platforms are set up.                       *)

\* async_set_temperature (lines 127-133) and _send_raw (lines 324-334).
CallerSetTemperature ==
    /\ polling /\ pc["caller"] = "idle"
    /\ Set(IF connected THEN [St EXCEPT !.pc["caller"] = "temp_write"] ELSE St)

\* async_set_values (lines 92-100) and _send_raw (lines 324-334).
CallerSetValues ==
    /\ polling /\ pc["caller"] = "idle"
    /\ Set(IF DOMAIN status # {} /\ connected
           THEN [St EXCEPT !.pc["caller"] = "set_write"] ELSE St)

\* update_status called by an entity (climate.py line 160).
CallerUpdateStatus ==
    /\ polling /\ pc["caller"] = "idle"
    /\ Set(IF connected THEN SendQuery(St, "caller") ELSE St)

\* The caller's write returns.
CallerWriteOk ==
    /\ pc["caller"] \in {"temp_write", "set_write"}
    /\ connected
    /\ Set([St EXCEPT !.pc["caller"] = "idle"])

\* The caller's write raises BleakError, which reaches the entity.
CallerWriteFails ==
    /\ pc["caller"] \in {"temp_write", "set_write"}
    /\ Set([St EXCEPT !.pc["caller"] = "idle"])

---------------------------------------------------------------------------
(* The device and the link.                                                 *)

\* What the frames of one handler call are to the update_status calls in
\* progress: a QUERY frame, and whether its payload was decoded into status
\* (line 158 reached: at least 18 bytes).
Received(a, out) ==
    LET queries == {i \in DOMAIN out : out[i].cmd = QUERY}
        decoded == \E i \in queries :
                       _decode_status(EmptyDict, out[i].payload) # EmptyDict
    IN  [t \in Tasks |->
            IF queries = {} \/ pc[t] \notin {"query_write", "query_wait"}
            THEN a[t]
            ELSE IF decoded \/ a[t] = "decoded" THEN "decoded" ELSE "frame"]

\* The device answers a command: its frame arrives as one notification.
DeviceAnswers ==
    \E c \in owed : \E f \in Answers(c) :
        /\ notifying
        /\ LET h == _notification_handler(notification_buffer, status,
                        status_updated_event, bind_event,
                        Len(notification_buffer), f)
           IN  Set([St EXCEPT !.buf = h.buf, !.status = h.status,
                              !.updated = h.updated, !.bind = h.bind,
                              !.answered = Received(@, h.out),
                              !.owed = @ \ {c}])

\* async_unload_entry (__init__.py lines 65-70) calls disconnect() (lines
\* 317-322): self._poll_task is None, so nothing is cancelled, and
\* self._client.disconnect() closes the link.  No entity calls afterwards.
ApiDisconnect ==
    /\ polling /\ pc["caller"] = "idle"
    /\ Set([Unlinked(St) EXCEPT !.pc["caller"] = "closed"])

\* The link drops.
LinkDrops ==
    /\ connected
    /\ Set(Unlinked(St))

InitPoll ==
    /\ SessionInit
    /\ connected = FALSE
    /\ notifying = FALSE
    /\ gatt \in GattKinds
    /\ owed = {}
    /\ pc = [t \in Tasks |-> IF t = "main" THEN "connect" ELSE "idle"]
    /\ polling = FALSE
    /\ sleep_duration = 0
    /\ streak = "none"
    /\ top_available = TRUE
    /\ seen_available = TRUE
    /\ discarded = FALSE
    /\ answered = [t \in {"main", "caller"} |-> "no"]
    /\ stream = <<>>
    /\ sent = <<>>
    /\ notifications = 0
    /\ log = <<>>
    /\ dispatched = <<>>
    /\ handler_error = FALSE
    /\ calls = <<>>

Next ==
    \/ ClientConnectOk
    \/ ClientConnectFails
    \/ ClientConnectTimesOut
    \/ StartNotifyOk
    \/ StartNotifyFails
    \/ ClientDisconnected
    \/ BindWriteOk
    \/ BindWriteFails
    \/ BindEchoed
    \/ BindTimesOut
    \/ \E t \in Tasks : QueryWriteOk(t)
    \/ \E t \in Tasks : QueryWriteFails(t)
    \/ \E t \in Tasks : QueryAnswered(t)
    \/ \E t \in Tasks : QueryTimesOut(t)
    \/ Wakes
    \/ WakesAfterError
    \/ PollCancelled
    \/ CallerSetTemperature
    \/ CallerSetValues
    \/ CallerUpdateStatus
    \/ CallerWriteOk
    \/ CallerWriteFails
    \/ DeviceAnswers
    \/ ApiDisconnect
    \/ LinkDrops

Spec == InitPoll /\ [][Next]_vars

\* The completion of whatever await the poll task is suspended at.  Every
\* await of the poll task ends: a sleep when its timer fires, a wait_for by
\* the event or its timeout, a client call by returning or raising.
MainStep ==
    \/ ClientConnectOk
    \/ ClientConnectFails
    \/ ClientConnectTimesOut
    \/ StartNotifyOk
    \/ StartNotifyFails
    \/ ClientDisconnected
    \/ BindWriteOk
    \/ BindWriteFails
    \/ BindEchoed
    \/ BindTimesOut
    \/ QueryWriteOk("main")
    \/ QueryWriteFails("main")
    \/ QueryAnswered("main")
    \/ QueryTimesOut("main")
    \/ Wakes
    \/ WakesAfterError

\* The poll loop's update_status is waiting; its answer has come in full.
Waiting == pc["main"] = "query_wait"
FullAnswerThere ==
    Waiting /\ status_updated_event /\ answered["main"] = "decoded"

\* The session and its poll loop on its own: no entity calls.
InitLive == InitPoll /\ gatt = "write-without-response"

NextLive ==
    \/ MainStep
    \/ PollCancelled
    \/ DeviceAnswers
    \/ LinkDrops

\* The session with a link that can be re-established and a device that
\* answers: a connect, a start_notify or a write that can succeed again and
\* again does succeed; if the loop waits for an answer again and again, a
\* full answer arrives in time again and again, and the waiting
\* update_status sees it.
SpecLive ==
    /\ InitLive /\ [][NextLive]_vars
    /\ WF_vars(MainStep)
    /\ SF_vars(ClientConnectOk)
    /\ SF_vars(StartNotifyOk)
    /\ SF_vars(QueryWriteOk("main"))
    /\ ([]<>Waiting => []<>FullAnswerThere)
    /\ SF_vars(QueryAnswered("main"))

---------------------------------------------------------------------------
(* Command specification: a session in any of a few states (no status yet, *)
(* single-zone status, dual-zone status; connected or not) on which one    *)
(* caller makes command calls one after the other.  Each call is recorded  *)
(* in calls with what it built, whether it reached the transport and how   *)
(* it ended.                                                               *)

MaxCmds == 2        \* command calls made on one session

\* self.status before the calls.
Baselines ==
    {EmptyDict,
     _decode_status(EmptyDict, SubSeq(SampleA, 1, 18)),
     _decode_status(EmptyDict, SubSeq(SampleA, 1, 28)),
     _decode_status(EmptyDict, SampleB)}

\* new_values of async_set_values (switch.py 56-62, number.py 86).
ChangeMaps ==
    {EmptyDict, "locked" :> TRUE, "left_target" :> -5, "run_mode" :> 1,
     "right_target" :> 3}

\* new_values of a direct _build_set_other_payload call.
PayloadChanges ==
    ChangeMaps \cup
    {"right_current" :> 3,
     ("temp_min" :> -18) @@ ("powered_on" :> FALSE),
     ("right_current" :> 3) @@ ("right_ret_diff" :> -2),
     "run_mode" :> 300, "unit" :> -1, "left_tc_hot" :> 300,
     "bat_saver" :> 255}

\* temp of async_set_temperature.
Temps == {-20, 5}

\* data of a direct _build_packet call.
PacketData == {<<>>, <<2>>, <<PRE, PRE, 255>>}

\* The record of a call.  A call that reaches write_gatt_char is pending
\* until the write completes; any other call has returned normally.
NewCall(op, changes, cmd, data, packet, after, sends) ==
    [op |-> op, changes |-> changes, cmd |-> cmd, data |-> data,
     packet |-> packet, before |-> status, after |-> after,
     linked |-> connected, wrote |-> FALSE,
     outcome |-> IF sends /\ connected THEN "pending" ELSE "returned"]

\* The call is appended and the caller is suspended if its write started.
Called(c, at) ==
    /\ calls' = Append(calls, c)
    /\ status' = c.after
    /\ pc' = [pc EXCEPT !["caller"] = IF c.outcome = "pending" THEN at
                                      ELSE "idle"]
    /\ UNCHANGED <<status_updated_event, bind_event, notification_buffer,
                   is_available, time_since_success,
                   write_requires_response, lock_locked, linkVars, polling,
                   sleep_duration, streak, top_available, seen_available,
                   discarded, answered, feedVars, callVars>>

\* async_set_values (lines 92-100) down to the await in _send_raw (324-334).
CmdSetValues(new_values) ==
    /\ pc["caller"] = "idle" /\ Len(calls) < MaxCmds
    /\ IF DOMAIN status = {}
       THEN Called(NewCall("async_set_values", new_values, SET, <<>>, <<>>,
                           status, FALSE), "set_write")
       ELSE LET b == _build_set_other_payload(status, new_values)
            IN  IF b.raises
                THEN Called([NewCall("async_set_values", new_values, SET,
                                     <<>>, <<>>, b.status, FALSE)
                                EXCEPT !.outcome = "ValueError"], "set_write")
                ELSE Called(NewCall("async_set_values", new_values, SET,
                                    b.data, _build_packet(SET, b.data),
                                    b.status, TRUE), "set_write")

\* async_set_temperature (lines 127-133) down to the await in _send_raw.
CmdSetTemperature(zone, temp) ==
    /\ pc["caller"] = "idle" /\ Len(calls) < MaxCmds
    /\ LET cmd     == IF zone = "left" THEN SET_LEFT ELSE SET_RIGHT
           payload == <<temp % 256>>
       IN  Called(NewCall("async_set_temperature", EmptyDict, cmd, payload,
                          _build_packet(cmd, payload), status, TRUE),
                  "temp_write")

\* _build_packet called on its own (lines 102-125).
CmdBuildPacket(cmd, data) ==
    /\ pc["caller"] = "idle" /\ Len(calls) < MaxCmds
    /\ Called(NewCall("_build_packet", EmptyDict, cmd, data,
                      _build_packet(cmd, data), status, FALSE), "idle")

\* _build_set_other_payload called on its own (lines 45-90).
CmdBuildSetPayload(new_values) ==
    /\ pc["caller"] = "idle" /\ Len(calls) < MaxCmds
    /\ LET b == _build_set_other_payload(status, new_values)
       IN  Called([NewCall("_build_set_other_payload", new_values, SET,
                           b.data, <<>>, b.status, FALSE)
                      EXCEPT !.outcome = IF b.raises THEN "ValueError" ELSE @],
                  "idle")

\* The end of the pending call.
Completed(wrote, outcome) ==
    /\ calls' = [calls EXCEPT ![Len(calls)].wrote = wrote,
                              ![Len(calls)].outcome = outcome]
    /\ pc' = [pc EXCEPT !["caller"] = "idle"]
    /\ UNCHANGED <<apiVars, linkVars, polling, sleep_duration, streak,
                   top_available, seen_available, discarded, answered,
                   feedVars, callVars>>

\* write_gatt_char returns (lines 330-334).
CmdWriteOk ==
    /\ pc["caller"] \in {"set_write", "temp_write"}
    /\ connected
    /\ Completed(TRUE, "returned")

\* write_gatt_char raises BleakError, which reaches the caller.
CmdWriteFails ==
    /\ pc["caller"] \in {"set_write", "temp_write"}
    /\ Completed(FALSE, "BleakError")

InitCmd ==
    /\ status \in Baselines
    /\ status_updated_event = FALSE
    /\ bind_event = FALSE
    /\ notification_buffer = <<>>
    /\ is_available = TRUE
    /\ time_since_success = 0
    /\ write_requires_response = FALSE
    /\ lock_locked = FALSE
    /\ NoTasks
    /\ connected \in BOOLEAN
    /\ notifying = connected
    /\ gatt = "write-without-response"
    /\ owed = {}
    /\ stream = <<>>
    /\ sent = <<>>
    /\ notifications = 0
    /\ log = <<>>
    /\ dispatched = <<>>
    /\ handler_error = FALSE
    /\ calls = <<>>

NextCmd ==
    \/ \E new_values \in ChangeMaps : CmdSetValues(new_values)
    \/ \E zone \in {"left", "right"}, temp \in Temps :
           CmdSetTemperature(zone, temp)
    \/ \E cmd \in Commands, data \in PacketData : CmdBuildPacket(cmd, data)
    \/ \E new_values \in PayloadChanges : CmdBuildSetPayload(new_values)
    \/ CmdWriteOk
    \/ CmdWriteFails

SpecCmd == InitCmd /\ [][NextCmd]_vars

---------------------------------------------------------------------------
(* Claims about frame extraction and decoding, checked under SpecFeed.     *)

\* The whole stream has arrived, in a single notification.
FedWhole == stream = <<>> /\ notifications = 1

\* C1: chunk-size invariance.  Once every byte of an encoded frame has been
\* delivered to a fresh session, in chunks of any sizes, the frames
\* dispatched over all the handler calls are the one frame (same command,
\* same payload) that the delivery in a single chunk dispatches.
C1_ChunkInvariant ==
    (stream = <<>> /\ sent \in EncodedFrames) =>
        /\ Len(log) = 1
        /\ log[1].cmd = sent[4]
        /\ log[1].packet = sent

\* C2: junk, then a valid frame, in one notification.  For junk without a
\* complete header (it may end in a single 0xFE), exactly the valid frame
\* is dispatched and the receive buffer is left empty.
C2_JunkThenFrame ==
    \A j \in Junk, f \in EncodedFrames :
        (FedWhole /\ sent = j \o f) =>
            /\ Len(log) = 1
            /\ log[1].packet = f
            /\ notification_buffer = <<>>

\* C3 as stated: feeding _build_packet(command, payload) whole to a fresh
\* session extracts exactly one frame, with that command and that payload.
C3_RoundTripAsStated ==
    \A c \in Commands, d \in SeqsUpTo(DataBytes, MaxData) :
        (FedWhole /\ sent = _build_packet(c, d)) =>
            /\ Len(log) = 1
            /\ log[1].cmd = c
            /\ log[1].payload = d

\* The two bytes that follow the payload in the frame built for (c, d).
Trailer(c, d) ==
    IF c = BIND THEN <<1, 255>>
    ELSE IF c = QUERY THEN <<2, 0>>
    ELSE ToBytes2((PRE + PRE + (Len(d) + 3) + c + SumSeq(d)) % 65536)

\* C3, amended: feeding _build_packet(command, payload) whole to a fresh
\* session extracts exactly one frame with that command; its payload is the
\* given payload followed by the frame's two checksum bytes for SET, RESET,
\* SET_LEFT and SET_RIGHT, and the fixed frame's last two bytes for BIND and
\* QUERY, whatever payload was given.
C3_RoundTrip ==
    \A c \in Commands, d \in SeqsUpTo(DataBytes, MaxData) :
        (FedWhole /\ sent = _build_packet(c, d)) =>
            /\ Len(log) = 1
            /\ log[1].cmd = c
            /\ log[1].payload =
                  (IF c \in {BIND, QUERY} THEN <<>> ELSE d) \o Trailer(c, d)
            /\ notification_buffer = <<>>

C3_Witness ==
    /\ FedWhole
    /\ sent = _build_packet(SET_LEFT, <<PRE, PRE>>)
    /\ Len(log) = 1
    /\ log[1].cmd = SET_LEFT
    /\ log[1].payload = <<PRE, PRE, 4, 2>>

QueryFixedFrame == <<254, 254, 3, 1, 2, 0>>

\* C4 as stated: feeding FE FE 03 01 02 00 to a fresh session yields one
\* frame whose command is 0x01 and whose payload is empty.
C4_QueryFrameAsStated ==
    (FedWhole /\ sent = QueryFixedFrame) =>
        /\ Len(log) = 1
        /\ log[1].cmd = 1
        /\ log[1].payload = <<>>

\* C4, amended: feeding FE FE 03 01 02 00 to a fresh session yields one
\* frame whose command is 0x01 and whose payload is the two bytes 02 00
\* that follow the command byte.
C4_QueryFrame ==
    (FedWhole /\ sent = QueryFixedFrame) =>
        /\ Len(log) = 1
        /\ log[1].cmd = 1
        /\ log[1].payload = <<2, 0>>

C4_Witness ==
    /\ FedWhole
    /\ sent = QueryFixedFrame
    /\ Len(log) = 1
    /\ log[1].payload = <<2, 0>>

\* C5: dispatch in arrival order.  When one notification carries two QUERY
\* responses back to back, that one handler call dispatches both, the first
\* before the second, sets the status-updated signal, and leaves in the
\* status record the values of the second (of the first where the second is
\* too short to decode).  In every state the frames dispatched so far are
\* in the order in which their bytes arrived.
C5_ArrivalOrder ==
    /\ \A f1 \in FirstResponses, f2 \in SecondResponses :
          (FedWhole /\ sent = f1 \o f2) =>
              /\ Len(dispatched) = 2
              /\ dispatched[1].packet = f1
              /\ dispatched[2].packet = f2
              /\ status_updated_event
              /\ LET p1 == PayloadOf(f1)
                     p2 == PayloadOf(f2)
                 IN  /\ Len(p2) >= 18 =>
                            \A k \in DOMAIN base_status(p2) :
                                status[k] = base_status(p2)[k]
                     /\ (Len(p2) < 18 /\ Len(p1) >= 18) =>
                            \A k \in DOMAIN base_status(p1) :
                                status[k] = base_status(p1)[k]
    /\ \A i \in 1..Len(log) :
          /\ log[i].packet =
                SubSeq(sent, log[i].at + 1, log[i].at + Len(log[i].packet))
          /\ i < Len(log) =>
                log[i].at + Len(log[i].packet) <= log[i + 1].at

C5_Witness ==
    /\ FedWhole
    /\ Len(dispatched) = 2
    /\ Len(dispatched[1].payload) = 28
    /\ Len(dispatched[2].payload) = 18
    /\ dispatched[1].at = 0
    /\ dispatched[2].at = 32
    /\ status_updated_event
    /\ status["left_target"] = -5
    /\ status["right_target"] = -6

RightKeys ==
    {"right_target", "right_ret_diff", "right_tc_hot", "right_tc_mid",
     "right_tc_cold", "right_tc_halt", "right_current"}

\* C6: decoding by payload length, from an empty status record.  After the
\* first QUERY payload a fresh session decodes: 18 bytes give a record with
\* no right_* key, 28 bytes give a record with every right_* key, and with
\* 17 bytes the decoder hits IndexError and no record is produced.
C6_DecodeByLength ==
    (Len(log) = 1 /\ log[1].cmd = QUERY) =>
        LET n == Len(log[1].payload) IN
        /\ n = 18 => /\ DOMAIN status # {}
                     /\ ~log[1].decode_error
                     /\ \A k \in DOMAIN status : k \notin RightKeys
        /\ n = 28 => /\ RightKeys \subseteq DOMAIN status
                     /\ ~log[1].decode_error
        /\ n = 17 => /\ DOMAIN status = {}
                     /\ log[1].decode_error

C6_Witness ==
    /\ Len(log) = 1
    /\ log[1].cmd = QUERY
    /\ Len(log[1].payload) = 28
    /\ status["right_current"] = 3
    /\ status["right_target"] = -6
    /\ status["temp_min"] = -20

\* The QUERY frames dispatched so far whose payload was decoded.
DecodedAt == {i \in DOMAIN log : log[i].cmd = QUERY /\ ~log[i].decode_error}

\* The payload of the latest of them.
LastDecoded == log[CHOOSE i \in DecodedAt : \A j \in DecodedAt : j <= i].payload

\* Offsets (0-based) of the unsigned and of the signed fields of a status.
UnsignedAt ==
    [run_mode |-> 2, bat_saver |-> 3, start_delay |-> 8, unit |-> 9,
     bat_percent |-> 15, bat_vol_int |-> 16, bat_vol_dec |-> 17]
SignedAt ==
    [left_target |-> 4, temp_max |-> 5, temp_min |-> 6, left_ret_diff |-> 7,
     left_tc_hot |-> 10, left_tc_mid |-> 11, left_tc_cold |-> 12,
     left_tc_halt |-> 13, left_current |-> 14]

\* A byte read as a two's-complement 8-bit number.
Signed8(b) == IF b >= 128 THEN b - 256 ELSE b

\* C21: status field decoding.  After a payload of at least 18 bytes has
\* been decoded, locked and powered_on are the truth values of bytes 0 and
\* 1, the unsigned fields are the bytes at their offsets, and the signed
\* fields are the bytes at their offsets read as signed 8-bit numbers.
C21_FieldDecoding ==
    DecodedAt # {} =>
        LET p == LastDecoded IN
        /\ status["locked"] = (p[1] # 0)
        /\ status["powered_on"] = (p[2] # 0)
        /\ \A k \in DOMAIN UnsignedAt : status[k] = p[UnsignedAt[k] + 1]
        /\ \A k \in DOMAIN SignedAt : status[k] = Signed8(p[SignedAt[k] + 1])

C21_Witness ==
    /\ DecodedAt # {}
    /\ LastDecoded[7] = 236 /\ status["temp_min"] = -20
    /\ LastDecoded[2] = 1 /\ status["powered_on"] = TRUE
    /\ LastDecoded[16] = 75 /\ status["bat_percent"] = 75

\* The commands of the frames the handler call of this step dispatched.
DispatchedCmds == {dispatched'[i].cmd : i \in DOMAIN dispatched'}

\* C25: echo frames are discarded.  A handler call that dispatches no QUERY
\* frame leaves the status record and the status-updated signal as they
\* were, one that dispatches no BIND frame leaves the bind signal as it
\* was; a QUERY frame sets the status-updated signal and a BIND frame the
\* bind signal.
C25_EchoesDiscarded ==
    [][/\ QUERY \notin DispatchedCmds =>
              (status' = status /\ status_updated_event' = status_updated_event)
       /\ BIND \notin DispatchedCmds => bind_event' = bind_event
       /\ QUERY \in DispatchedCmds => status_updated_event'
       /\ BIND \in DispatchedCmds => bind_event']_vars

C25_Witness ==
    /\ Len(log) = 2 /\ Len(dispatched) = 1
    /\ dispatched[1].cmd = SET_LEFT
    /\ status = base_status(SampleA)
    /\ ~bind_event

\* The receive buffer is empty or begins with 0xFE 0xFE.
AtPreamble(buf) ==
    buf = <<>> \/ (Len(buf) >= 2 /\ buf[1] = PRE /\ buf[2] = PRE)

\* C26: receive-buffer invariant.  After every return of the handler the
\* receive buffer is empty or begins with 0xFE 0xFE.
C26_BufferAtPreamble ==
    ~handler_error => AtPreamble(notification_buffer)

C26_Witness ==
    /\ sent # <<>> /\ sent[1] = 0
    /\ notification_buffer # <<>>
    /\ Len(notification_buffer) < Len(sent)
    /\ AtPreamble(notification_buffer)

\* The buffer begins with a complete frame: header, length byte, and at
\* least as many bytes as the length byte announces.
CompleteFrameWaiting(buf) ==
    /\ Len(buf) >= 3 /\ buf[1] = PRE /\ buf[2] = PRE
    /\ Len(buf) >= 3 + buf[3]

\* C32: the notification handler never fails on input.  Every handler call
\* returns normally, and when it returns no complete frame is left at the
\* head of the buffer.
C32_HandlerNeverFails ==
    ~handler_error /\ ~CompleteFrameWaiting(notification_buffer)

\* C27: only complete frames are dispatched.  Every dispatched frame begins
\* with 0xFE 0xFE, has exactly 3 + L bytes, L its length byte, and is a run
\* of bytes that arrived; while an encoded frame has only partly arrived,
\* nothing is dispatched and the bytes that arrived are in the buffer.
C27_OnlyCompleteFrames ==
    /\ \A i \in DOMAIN log :
           LET f == log[i] IN
           /\ f.packet[1] = PRE /\ f.packet[2] = PRE
           /\ Len(f.packet) = 3 + f.packet[3]
           /\ f.packet = SubSeq(sent, f.at + 1, f.at + Len(f.packet))
    /\ (sent # <<>> /\ stream # <<>> /\ (sent \o stream) \in EncodedFrames) =>
           (log = <<>> /\ notification_buffer = sent)

\* The handler call of this step dispatched QUERY frames, all of them with
\* a payload shorter than 18 bytes.
OnlyShortQueries ==
    /\ QUERY \in DispatchedCmds
    /\ \A i \in DOMAIN dispatched' :
           dispatched'[i].cmd = QUERY => Len(dispatched'[i].payload) < 18

\* C28: a too-short status payload changes nothing.  A handler call whose
\* QUERY frames all have a payload shorter than 18 bytes leaves every field
\* of the status record as it was and does not raise.
C28_ShortPayloadIgnored ==
    [][OnlyShortQueries => (status' = status /\ ~handler_error')]_vars

C28_Witness ==
    /\ Len(log) = 2 /\ Len(dispatched) = 1
    /\ dispatched[1].cmd = QUERY /\ dispatched[1].decode_error
    /\ Len(dispatched[1].payload) = 17
    /\ status = base_status(SampleA)
    /\ status_updated_event

\* C29: the decoded status reflects the latest response only.  After a
\* payload has been decoded, the status record holds right-zone fields if
\* and only if that payload has at least 28 bytes.
C29_LatestResponseOnly ==
    DecodedAt # {} =>
        ((RightKeys \cap DOMAIN status # {}) <=> Len(LastDecoded) >= 28)

---------------------------------------------------------------------------
(* Claims about the session and the poll loop, checked under Spec.         *)

\* Task t has sent a QUERY and not finished waiting for the response.
QueryInFlight(t) == pc[t] \in {"query_write", "query_wait"}

\* Task t has a write on the transport that has not returned.
WriteInFlight(t) == pc[t] \in {"query_write", "temp_write", "set_write"}

\* C7: queries and commands are mutually exclusive.  While a task is
\* between sending its QUERY and the end of its response wait, no other
\* task has a QUERY in flight or a write on the transport.
C7_MutualExclusion ==
    \A t \in Tasks :
        QueryInFlight(t) =>
            \A u \in Tasks \ {t} : ~QueryInFlight(u) /\ ~WriteInFlight(u)

\* The poll loop passes the staleness check and goes to sleep.
IterationEnds == pc["main"] # "sleep" /\ pc'["main"] = "sleep"

\* C8: staleness detection.  When the link has stayed connected and every
\* update_status call of the poll loop has timed out since the last
\* successful query (streak = "clean"), the iteration that ends more than
\* 300 seconds after that query leaves is_available false and the status
\* record empty.
C8_Staleness ==
    [][(streak = "clean" /\ IterationEnds /\ time_since_success' > 300) =>
            (is_available' = FALSE /\ DOMAIN status' = {})]_vars

C8_Witness ==
    /\ streak = "stale"
    /\ pc["main"] = "sleep"
    /\ connected
    /\ time_since_success > 300
    /\ is_available = FALSE
    /\ DOMAIN status = {}

\* C9: unavailability clears the status.  In every state reached once
\* polling has started, is_available false implies an empty status record.
C9_UnavailableIsEmpty ==
    (polling /\ ~is_available) => DOMAIN status = {}

\* C10: cancellation.  Once the poll task has been cancelled at one of its
\* awaits, it has left the loop for good and is_available is false.
C10_Cancellation ==
    /\ [](pc["main"] \in {"cancelled", "cancelled_in_handler"} => ~is_available)
    /\ [][pc["main"] \in {"cancelled", "cancelled_in_handler"} =>
              pc'["main"] = pc["main"]]_vars

C10_Witness ==
    /\ pc["main"] = "cancelled_in_handler"
    /\ is_available = FALSE
    /\ DOMAIN status # {}

\* C11: the poll loop never terminates because of a failure.  Once
\* start_polling has been entered, the task is suspended at one of the
\* loop's awaits unless it was cancelled: no failure of connect(), of the
\* QUERY write or of the response wait ends the task.
C11_LoopSurvivesFailures ==
    polling => pc["main"] \in PollAwaits \cup {"cancelled", "cancelled_in_handler"}

\* The awaits of connect() up to the subscription, and those of its bind
\* step.
ConnectAwaits == {"connect", "start_notify", "disconnect"}
BindAwaits == {"bind_write", "bind_wait"}

\* connect() has finished its handshake on the current connection.
Ready ==
    connected /\ notifying /\ pc["main"] \notin ConnectAwaits \cup BindAwaits

\* Task t starts the write of a QUERY or SET frame in this step.
StartsCommand(t) ==
    /\ pc[t] \notin {"query_write", "temp_write", "set_write"}
    /\ pc'[t] \in {"query_write", "temp_write", "set_write"}

\* C14: commands are issued only from Ready.  Whenever a task starts the
\* write of a QUERY, SET, SET_LEFT or SET_RIGHT frame, connect() has
\* finished its handshake on the current connection.
C14_CommandsOnlyFromReady ==
    [][\A t \in Tasks : StartsCommand(t) => Ready']_vars

\* C15: BIND is sent on the first connect only.  The BIND write starts
\* only in the step in which start_notify returns during the first
\* connect, that step always starts it, no QUERY has been sent before the
\* bind step is over, and once polling has started no step enters the
\* bind step again.
C15_BindOnFirstConnectOnly ==
    /\ [](pc["main"] \in BindAwaits => (~polling /\ QUERY \notin owed))
    /\ [][(pc["main"] # "bind_write" /\ pc'["main"] = "bind_write") =>
              (pc["main"] = "start_notify" /\ notifying' /\ ~polling)]_vars
    /\ [][(pc["main"] = "start_notify" /\ notifying' /\ ~polling) =>
              pc'["main"] = "bind_write"]_vars
    /\ [][polling => pc'["main"] \notin BindAwaits]_vars

\* A reconnect by the poll loop has succeeded and the loop has gone on to
\* its QUERY.
C15_Witness ==
    /\ polling /\ connected /\ notifying
    /\ pc["main"] = "query_write"
    /\ streak = "none" /\ is_available
    /\ BIND \notin owed

\* C16: a missing BIND echo is not fatal.  When the bind step of the first
\* connect ends (echo, timeout or BLE error of the write), connect()
\* reports success if and only if the client is connected: setup goes on
\* to its first QUERY when it is, and gives up when it is not.
C16_BindEchoNotRequired ==
    [][(pc["main"] \in BindAwaits /\ pc'["main"] \notin BindAwaits) =>
           IF connected' THEN pc'["main"] = "query_write"
           ELSE pc'["main"] = "setup_failed"]_vars

C16_Witness ==
    /\ ~polling /\ connected
    /\ pc["main"] = "query_wait"
    /\ bind_event = FALSE
    /\ DOMAIN status # {}

C19_DisconnectResolvesWait ==
    [][(pc["caller"] # "closed" /\ pc'["caller"] = "closed") =>
           \A t \in Tasks :
               (pc[t] = "query_wait" /\ ~status_updated_event)
                   => pc'[t] # "query_wait"]_vars

\* The step in which update_status returns success to task t.
Succeeds(t) ==
    /\ pc[t] = "query_wait" /\ status_updated_event
    /\ pc'[t] # "query_wait"

\* C33: no stale response is credited to a new query.  update_status
\* returns success only if a QUERY frame was received after the call cleared
\* the status-updated signal; a QUERY frame signalled before the call began
\* is discarded by the clear.
C33_NoStaleCredit ==
    [][\A t \in Tasks : Succeeds(t) => answered[t] # "no"]_vars

\* The poll loop's call cleared a signal left by a frame that came after the
\* previous call had timed out, and is waiting with no frame of its own.
C33_Witness ==
    /\ polling /\ pc["main"] = "query_wait"
    /\ discarded /\ answered["main"] = "no"
    /\ ~status_updated_event
    /\ time_since_success >= QUERY_TIMEOUT + SLEEP_CONNECTED

\* C36: a successful query implies a decoded status.  Whenever
\* update_status returns success, a QUERY response was decoded into the
\* status record during that call.
C36_SuccessMeansDecoded ==
    [][\A t \in Tasks : Succeeds(t) => answered[t] = "decoded"]_vars

\* The poll loop has ended.
LoopStopped == pc["main"] \in {"cancelled", "cancelled_in_handler", "crashed"}

\* C35: availability recovers.  From any state of the running poll loop in
\* which the device is marked unavailable, unless the loop ends, eventually
\* is_available is true and the status record is non-empty.
C35_AvailabilityRecovers ==
    (polling /\ ~is_available) ~>
        ((is_available /\ status # EmptyDict) \/ LoopStopped)

\* The iteration began with the device unavailable and the status empty;
\* now the device is available and a decoded status is there.
C35_Witness ==
    /\ polling /\ ~top_available /\ ~seen_available
    /\ is_available /\ status # EmptyDict
    /\ answered["main"] = "decoded"

\* disconnect() has been called on the session.
Closed == pc["caller"] = "closed"

\* C34: disconnect() stops the session for good.  Once disconnect() has
\* been called while the poll loop runs, the session starts no connect
\* attempt and no write.
C34_DisconnectStopsSession ==
    [][Closed =>
           /\ (pc'["main"] = "connect" => pc["main"] = "connect")
           /\ \A t \in Tasks :
                  pc'[t] \in {"query_write", "bind_write", "set_write",
                              "temp_write"} => pc'[t] = pc[t]]_vars

\* The step in which update_status returns success to start_polling.
QuerySucceeds ==
    /\ pc["main"] = "query_wait" /\ status_updated_event
    /\ pc'["main"] # "query_wait"

\* C22: freshness is confirmed only by a successful query.  While the poll
\* loop runs, the last-success timestamp is advanced and is_available is
\* set to true only in the step in which update_status returns success.
C22_FreshOnlyByQuery ==
    [][(/\ polling
        /\ \/ time_since_success' < time_since_success
           \/ ~is_available /\ is_available') => QuerySucceeds]_vars

\* The step that ends an iteration in which the reconnect failed or
\* update_status timed out, with at most 300 s on the clock.
FailedCycleEnds ==
    /\ polling
    /\ \/ pc["main"] \in ConnectAwaits
       \/ pc["main"] = "query_wait" /\ ~status_updated_event
    /\ pc'["main"] = "sleep"
    /\ time_since_success' <= STALE_AFTER

\* C23: a failed cycle inside the threshold changes nothing.  At the end of
\* such an iteration is_available has the value it had at the top of the
\* iteration, and the last step leaves the status record as it was.
C23_FailedCycleChangesNothing ==
    [][FailedCycleEnds =>
           (is_available' = top_available /\ status' = status)]_vars

\* C24: every poll-loop iteration notifies observers.  Whenever the loop
\* sleeps, the update callback has run since is_available last changed.
C24_ObserversNotified ==
    (polling /\ pc["main"] \in {"sleep", "error_sleep"}) =>
        seen_available = is_available

---------------------------------------------------------------------------
(* Claims about command calls, checked under SpecCmd.                      *)

\* C12: a set request with no baseline is rejected visibly.  Every
\* async_set_values call made while the status record is empty writes
\* nothing to the transport and ends with an error outcome, not with a
\* normal return.
C12_SetWithoutBaselineRejected ==
    \A i \in DOMAIN calls :
        (calls[i].op = "async_set_values" /\ DOMAIN calls[i].before = {}) =>
            (~calls[i].wrote /\ calls[i].outcome # "returned")

\* C13: sending while not connected fails.  Every call that reaches
\* _send_raw while the transport reports not-connected writes nothing and
\* ends with an error outcome, not with a normal return.
C13_SendWhileDisconnectedFails ==
    \A i \in DOMAIN calls :
        (/\ calls[i].op \in {"async_set_values", "async_set_temperature"}
         /\ calls[i].packet # <<>>
         /\ ~calls[i].linked) =>
            (~calls[i].wrote /\ calls[i].outcome # "returned")

\* The call built a SET payload from the status record.
BuiltPayload(c) == c.op = "async_set_values" /\ DOMAIN c.before # {}

\* C18: _build_set_other_payload is idempotent and leaves the baseline
\* untouched.  Every build leaves the status record as it found it, and two
\* builds on one session with the same changes return the same bytes.
C18_BuildIsPure ==
    \A i \in DOMAIN calls :
        BuiltPayload(calls[i]) =>
            /\ calls[i].after = calls[i].before
            /\ \A j \in DOMAIN calls :
                   (BuiltPayload(calls[j]) /\ calls[j].changes = calls[i].changes)
                       => calls[j].data = calls[i].data

C18_Witness ==
    /\ Len(calls) = 2
    /\ BuiltPayload(calls[1]) /\ BuiltPayload(calls[2])
    /\ calls[1].changes = calls[2].changes
    /\ DOMAIN calls[1].changes = {"right_target"}
    /\ Len(calls[2].data) = 25
    /\ calls[2].data[15] = 3

\* C20: outbound encoding.  Every packet _build_packet returned is the
\* literal FE FE 03 00 01 FF for BIND and FE FE 03 01 02 00 for QUERY,
\* whatever the payload argument; for any other command it is FE FE, a
\* length byte of len(payload) + 3, the command byte, the payload, and the
\* sum modulo 65536 of all those bytes as two big-endian bytes.
C20_OutboundEncoding ==
    \A i \in DOMAIN calls :
        LET c == calls[i].cmd
            d == calls[i].data
            p == calls[i].packet
            n == Len(p)
        IN  p # <<>> =>
                IF c = BIND THEN p = <<254, 254, 3, 0, 1, 255>>
                ELSE IF c = QUERY THEN p = <<254, 254, 3, 1, 2, 0>>
                ELSE /\ n = Len(d) + 6
                     /\ p[1] = 254 /\ p[2] = 254
                     /\ p[3] = Len(d) + 3
                     /\ p[4] = c
                     /\ SubSeq(p, 5, n - 2) = d
                     /\ p[n - 1] \in 0..255 /\ p[n] \in 0..255
                     /\ 256 * p[n - 1] + p[n]
                            = SumSeq(SubSeq(p, 1, n - 2)) % 65536

C20_Witness ==
    /\ Len(calls) = 2
    /\ calls[1].op = "_build_packet" /\ calls[1].cmd = QUERY
    /\ calls[1].data = <<PRE, PRE, 255>>
    /\ calls[2].op = "async_set_values" /\ Len(calls[2].data) = 25
    /\ calls[2].wrote

\* The call ran _build_set_other_payload.
RanBuilder(c) == BuiltPayload(c) \/ c.op = "_build_set_other_payload"

\* The builder returned a payload.
Returned(c) == RanBuilder(c) /\ c.outcome # "ValueError"

\* The fields of the payload in byte order; "" is a reserved zero byte.
LeftFields ==
    <<"locked", "powered_on", "run_mode", "bat_saver", "left_target",
      "temp_max", "temp_min", "left_ret_diff", "start_delay", "unit",
      "left_tc_hot", "left_tc_mid", "left_tc_cold", "left_tc_halt">>

RightFields ==
    <<"right_target", "", "", "right_ret_diff", "right_tc_hot",
      "right_tc_mid", "right_tc_cold", "right_tc_halt", "", "", "">>

\* The defaults as the claim lists them: every field but four is 0.
StatedDefault(k) ==
    CASE k = "powered_on" -> 1
      [] k = "temp_max" -> 20
      [] k = "temp_min" -> -20
      [] k = "left_ret_diff" -> 1
      [] OTHER -> 0

\* The defaults of the code: right_ret_diff is 1 as well.
CodeDefault(k) == IF k = "right_ret_diff" THEN 1 ELSE StatedDefault(k)

\* The byte of field k: the changed value, else the last-known value, else
\* the default, as an unsigned byte.
FieldByte(c, k, default) ==
    IF k = "" THEN 0
    ELSE IF k \in DOMAIN c.changes
         THEN (IF k \in {"locked", "powered_on"}
               THEN (IF c.changes[k] THEN 1 ELSE 0)
               ELSE c.changes[k] % 256)
    ELSE IF k \in DOMAIN c.before
         THEN (IF k \in {"locked", "powered_on"}
               THEN (IF c.before[k] THEN 1 ELSE 0)
               ELSE c.before[k] % 256)
    ELSE default % 256

HasRightZone(c) == "right_current" \in DOMAIN c.changes \cup DOMAIN c.before

\* C30 as amended: _build_set_other_payload returns exactly 14 bytes, the
\* left-zone fields in order, when the merged status has no right_current
\* and exactly 25 when it has (the 14, then right_target, 0, 0,
\* right_ret_diff, right_tc_hot, right_tc_mid, right_tc_cold, right_tc_halt,
\* 0, 0, 0); a changed field takes the changed value, any other its
\* last-known value, an absent one its default, where powered_on is 1,
\* temp_max 20, temp_min -20, left_ret_diff 1, right_ret_diff 1, others 0.
C30_SetPayloadShape ==
    \A i \in DOMAIN calls :
        LET c == calls[i] IN
        Returned(c) =>
            /\ Len(c.data) = IF HasRightZone(c) THEN 25 ELSE 14
            /\ \A n \in 1..14 :
                   c.data[n] = FieldByte(c, LeftFields[n], CodeDefault(LeftFields[n]))
            /\ HasRightZone(c) =>
                   \A n \in 1..11 :
                       c.data[14 + n] =
                           FieldByte(c, RightFields[n], CodeDefault(RightFields[n]))

C30_Witness ==
    /\ Len(calls) = 2
    /\ calls[1].op = "_build_set_other_payload"
    /\ DOMAIN calls[1].before = {}
    /\ DOMAIN calls[1].changes = {"right_current"}
    /\ calls[1].data =
           <<0, 1, 0, 0, 0, 20, 236, 1, 0, 0, 0, 0, 0, 0,
             0, 0, 0, 1, 0, 0, 0, 0, 0, 0, 0>>
    /\ calls[2].op = "_build_set_other_payload"
    /\ DOMAIN calls[2].changes = {"temp_min", "powered_on"}
    /\ Len(calls[2].data) = 14
    /\ calls[2].data[2] = 0 /\ calls[2].data[7] = 238

\* C30 as stated: the same, with every default but powered_on, temp_max,
\* temp_min and left_ret_diff equal to 0.
C30_SetPayloadShapeAsStated ==
    \A i \in DOMAIN calls :
        LET c == calls[i] IN
        Returned(c) =>
            /\ Len(c.data) = IF HasRightZone(c) THEN 25 ELSE 14
            /\ \A n \in 1..14 :
                   c.data[n] = FieldByte(c, LeftFields[n], StatedDefault(LeftFields[n]))
            /\ HasRightZone(c) =>
                   \A n \in 1..11 :
                       c.data[14 + n] =
                           FieldByte(c, RightFields[n], StatedDefault(RightFields[n]))

\* C31: SET payload building has no error outcome.  Every call of
\* _build_set_other_payload returns a payload, and in it the byte of each of
\* the 14 single-zone fields is the field's value modulo 256.
C31_BuildNeverRaises ==
    \A i \in DOMAIN calls :
        LET c == calls[i] IN
        RanBuilder(c) =>
            /\ c.outcome # "ValueError"
            /\ Len(c.data) >= 14
            /\ \A n \in 1..14 :
                   c.data[n] = FieldByte(c, LeftFields[n], CodeDefault(LeftFields[n]))

===========================================================================
